---------------------------- MODULE Spec2Model ----------------------------
(***************************************************************************)
(* A model of the primor simulation server.  The repository holds two      *)
(* programs that share no state:                                           *)
(*                                                                         *)
(*   src/app.py     the grid variant: Flask-SocketIO handlers and a bot    *)
(*                  loop that mutate PLAYERS / GLOBAL_STATE under LOCK.    *)
(*   src/server.py  the colony variant: aiohttp websocket handlers and a   *)
(*                  world loop that run as asyncio tasks on one thread.    *)
(*                                                                         *)
(* The variable `variant` says which program a behaviour is a run of.      *)
(***************************************************************************)
EXTENDS Integers, Sequences, FiniteSets, TLC

VARIABLES
    variant,            \* "grid" | "threads" | "colony": the program that runs
    \* ---- src/app.py ----
    PLAYERS,            \* dict player_id -> PlayerState, in insertion order
    GLOBAL_STATE,       \* players, global_mutations, global_biomass
    BOT_TASK_STARTED,   \* the module flag ensure_bots_running sets
    sessions,           \* the socket.io sessions and their request.args
    nextUuid,           \* how many uuid4() ids handle_connect has drawn
    nops,               \* how many handler runs and bot iterations have begun
    nloops,             \* how many bot_loop iterations have begun
    last,               \* history: the handler that ran last, and how it ended
    LOCK,               \* threading.Lock: TRUE while a thread holds it
    thr,                \* the threads: handler, statement reached, locals
    serial,             \* history: the store when LOCK was last released
    \* ---- src/server.py ----
    world,              \* World: tick, bacteria (insertion order), global_traits
    clients,            \* the module set of registered sockets
    sock,               \* per connection: the state of its WebSocketResponse
    task,               \* the asyncio tasks: world_loop, one handler per socket
    recv,               \* per connection: the last world:update delivered
    commits,            \* history: how many changes of `world` were committed
    shutdown            \* "running", or how on_cleanup ended: "clean" | "raised"

gridVars == <<PLAYERS, GLOBAL_STATE, BOT_TASK_STARTED, sessions, nextUuid,
              nops, nloops, last>>
threadVars == <<LOCK, thr, serial>>
colonyVars == <<world, clients, sock, task, recv, commits, shutdown>>
vars == <<variant, gridVars, threadVars, colonyVars>>

---------------------------------------------------------------------------
(* Bounds of the exploration. *)

\* Sessions that may connect in one run.
MaxSessions == 2
\* Handler invocations and bot_loop iterations explored in one run.
MaxOps == 4
\* Of these, the iterations of bot_loop.
MaxLoops == 1
\* random.randint(lo, hi) is explored for the outcomes lo .. lo + MaxDraw.
MaxDraw == 0
\* Iterations of world_loop explored in one run (the bound of world.tick).
MaxTicks == 2
\* Events whose handlers run as concurrent threads in one run.
MaxThreads == 3
\* Handler invocations and loop iterations explored in a run that starts
\* in the middle of a game.
ArenaOps == 2

---------------------------------------------------------------------------
(* src/app.py: constants and the entity store. *)

MAP_WIDTH == 12
MAP_HEIGHT == 8
BOT_COUNT == 4

Min(a, b) == IF a < b THEN a ELSE b
Max(a, b) == IF a > b THEN a ELSE b
Abs(a) == IF a < 0 THEN -a ELSE a

\* Identifiers are strings in the source; the model tags them by origin.
None == <<"none", 0>>
Name(k) == <<"name", k>>        \* an id a client chose (?player=...)
Uuid(n) == <<"uuid", n>>        \* the n-th uuid4().hex of handle_connect
BotId(i) == <<"bot", i>>        \* f"bot-{uuid4().hex[:8]}" of the i-th bot

\* The client-chosen ids and the payload "player" values explored.
Names == {Name(1)}
Ghost == <<"name", 0>>          \* an id no actor ever has

\* The nodes of EVOLUTION_TREE (all levels of the nested mapping).
AppTreeNodes ==
    {"metabolism", "solar", "prism", "radiant", "chemo", "acid", "ferment",
     "mobility", "flagella", "swarm", "burst", "float", "thermal",
     "camouflage", "defense", "shell", "spikes", "reflect", "toxin",
     "cloud", "stun"}

\* A payload value Python cannot hash (a JSON array or object).
UNHASHABLE == "[unhashable]"
\* The "mutation" payload values explored: a node, a string that is no
\* node, an unhashable value, and the empty (or missing) value.
MutationInputs == {"shell", "bogus", UNHASHABLE, ""}
\* `not value` for a payload string, and for an id (None: missing or empty).
Falsy(v) == v = ""
NoId(id) == id = None

DirectionInputs == {"up", "down", "left", "right", "sideways", ""}

\* random.randint(lo, hi), within the explored outcomes.
RandInt(lo, hi) == lo .. Min(hi, lo + MaxDraw)
Cells == RandInt(0, MAP_WIDTH - 1) \X RandInt(0, MAP_HEIGHT - 1)

PlayerState(id, x, y, bot) ==
    [player_id |-> id, mutations |-> <<>>, biomass |-> 1, hp |-> 10,
     x |-> x, y |-> y, is_bot |-> bot]

\* dict operations on PLAYERS (a sequence of PlayerState, keys unique).
Has(P, id) == \E i \in 1..Len(P) : P[i].player_id = id
IndexOf(P, id) == CHOOSE i \in 1..Len(P) : P[i].player_id = id
Get(P, id) == P[IndexOf(P, id)]
SetItem(P, ps) ==
    IF Has(P, ps.player_id)
    THEN [P EXCEPT ![IndexOf(P, ps.player_id)] = ps]
    ELSE Append(P, ps)
Pop(P, id) ==
    LET i == IndexOf(P, id)
    IN  SubSeq(P, 1, i - 1) \o SubSeq(P, i + 1, Len(P))
Keys(P) == {P[i].player_id : i \in 1..Len(P)}

InSeq(v, s) == \E i \in 1..Len(s) : s[i] = v

\* clamp without its upper limit.
clampLow(value, min_value, max_value) == Max(min_value, value)

clamp(value, min_value, max_value) == Max(min_value, Min(max_value, value))

direction_to_delta(direction) ==
    CASE direction = "up" -> <<0, -1>>
      [] direction = "down" -> <<0, 1>>
      [] direction = "left" -> <<-1, 0>>
      [] direction = "right" -> <<1, 0>>
      [] OTHER -> <<0, 0>>

\* The ids of the actors find_targets returns, in dict order.
RECURSIVE TargetsFrom(_, _, _)
TargetsFrom(P, ps, i) ==
    IF i > Len(P) THEN <<>>
    ELSE IF P[i].player_id # ps.player_id
            /\ Abs(P[i].x - ps.x) <= 1 /\ Abs(P[i].y - ps.y) <= 1
         THEN <<P[i].player_id>> \o TargetsFrom(P, ps, i + 1)
         ELSE TargetsFrom(P, ps, i + 1)
\* find_targets without its two tests: every actor of the store.
find_targets_all(P, ps) == [i \in 1..Len(P) |-> P[i].player_id]

find_targets(P, ps) == TargetsFrom(P, ps, 1)

respawn(ps, cell) == [ps EXCEPT !.hp = 10, !.x = cell[1], !.y = cell[2]]

Moved(ps, direction) ==
    LET d == direction_to_delta(direction)
    IN  [ps EXCEPT !.x = clamp(ps.x + d[1], 0, MAP_WIDTH - 1),
                   !.y = clamp(ps.y + d[2], 0, MAP_HEIGHT - 1)]

\* ensure_bots_running: the roster, appended once.
RECURSIVE WithBots(_, _, _)
WithBots(P, cells, i) ==
    IF i > BOT_COUNT THEN P
    ELSE WithBots(SetItem(P, PlayerState(BotId(i), cells[i][1], cells[i][2],
                                         TRUE)),
                  cells, i + 1)


---------------------------------------------------------------------------
(* src/app.py: what each handler does to the store, as the code computes   *)
(* it inside `with LOCK`.  Each operator returns the new PLAYERS (P) and   *)
(* GLOBAL_STATE (G), and where the handler left (`exit`):                  *)
(*   "rejected"   the early return of the validation line                  *)
(*   "duplicate"  the early return of handle_mutate, line 217              *)
(*   "emitted"    it reached its emit(..., broadcast=True)                 *)
(*   "raised"     an exception left the handler                            *)
(*   "idle"       a bot_loop iteration that emitted nothing                *)

Outcome(P, G, exit) == [P |-> P, G |-> G, exit |-> exit]

\* handle_connect, lines 181-189; `started` is BOT_TASK_STARTED beforehand.
ConnectEffect(P, G, started, player_id, cell, botcells) ==
    LET player_state == PlayerState(player_id, cell[1], cell[2], FALSE)
        P1 == SetItem(P, player_state)
        G1 == [G EXCEPT !.players = Len(P1),
                        !.global_biomass = @ + player_state.biomass]
        P2 == IF started THEN P1 ELSE WithBots(P1, botcells, 1)
        G2 == IF started THEN G1 ELSE [G1 EXCEPT !.players = Len(P2)]
    IN  Outcome(P2, G2, "emitted")

\* handle_disconnect without the max(0, ...) of line 202.
DisconnectEffectUnfloored(P, G, player_id) ==
    IF NoId(player_id) \/ ~Has(P, player_id)
    THEN Outcome(P, G, "rejected")
    ELSE LET player_state == Get(P, player_id)
             P1 == Pop(P, player_id)
         IN  Outcome(P1,
                     [G EXCEPT !.players = Len(P1),
                               !.global_biomass = @ - player_state.biomass],
                     "emitted")

\* handle_disconnect, lines 196-205.
DisconnectEffect(P, G, player_id) ==
    IF NoId(player_id) \/ ~Has(P, player_id)
    THEN Outcome(P, G, "rejected")
    ELSE LET player_state == Get(P, player_id)
             P1 == Pop(P, player_id)
         IN  Outcome(P1,
                     [G EXCEPT !.players = Len(P1),
                               !.global_biomass =
                                   Max(0, @ - player_state.biomass)],
                     "emitted")

\* GLOBAL_STATE["global_mutations"].setdefault(m, 0); [m] += 1
Counted(gm, mutation) ==
    IF mutation \in DOMAIN gm
    THEN [gm EXCEPT ![mutation] = @ + 1]
    ELSE gm @@ (mutation :> 1)

\* handle_mutate without the test of line 215.
MutateEffectRepeat(P, G, player_id, mutation) ==
    IF NoId(player_id) \/ ~Has(P, player_id) \/ Falsy(mutation)
    THEN Outcome(P, G, "rejected")
    ELSE LET player_state == Get(P, player_id)
             ps1 == [player_state EXCEPT
                         !.mutations = Append(@, mutation),
                         !.biomass = @ + 1,
                         !.hp = Min(20, @ + 1)]
         IN  Outcome(SetItem(P, ps1),
                     [G EXCEPT !.global_biomass = @ + 1,
                               !.global_mutations = Counted(@, mutation)],
                     "emitted")

\* handle_mutate, lines 210-224.  An unhashable mutation value passes the
\* list membership test and the appends, and raises TypeError at setdefault.
MutateEffect(P, G, player_id, mutation) ==
    IF NoId(player_id) \/ ~Has(P, player_id) \/ Falsy(mutation)
    THEN Outcome(P, G, "rejected")
    ELSE LET player_state == Get(P, player_id)
         IN  IF InSeq(mutation, player_state.mutations)
             THEN Outcome(P, G, "duplicate")
             ELSE LET ps1 == [player_state EXCEPT
                                  !.mutations = Append(@, mutation),
                                  !.biomass = @ + 1,
                                  !.hp = Min(20, @ + 1)]
                      P1 == SetItem(P, ps1)
                      G1 == [G EXCEPT !.global_biomass = @ + 1]
                  IN  IF mutation = UNHASHABLE
                      THEN Outcome(P1, G1, "raised")
                      ELSE Outcome(P1,
                                   [G1 EXCEPT !.global_mutations =
                                                  Counted(@, mutation)],
                                   "emitted")

\* handle_move, lines 229-238.
MoveEffect(P, G, player_id, direction) ==
    IF NoId(player_id) \/ ~Has(P, player_id) \/ Falsy(direction)
    THEN Outcome(P, G, "rejected")
    ELSE Outcome(SetItem(P, Moved(Get(P, player_id), direction)), G,
                 "emitted")

\* The loop of handle_attack, lines 249-255, from the k-th target on: the
\* set of results over the random.randint outcomes of respawn.
RECURSIVE AttackLoop(_, _, _, _)
AttackLoop(P, G, targets, k) ==
    IF k > Len(targets) THEN {[P |-> P, G |-> G]}
    ELSE LET target == Get(P, targets[k])
             hit == [target EXCEPT !.hp = @ - 2]
         IN  IF hit.hp <= 0
             THEN UNION {AttackLoop(SetItem(P, respawn(hit, cell)),
                                    [G EXCEPT !.global_biomass =
                                                  Max(0, @ - 1)],
                                    targets, k + 1) : cell \in Cells}
             ELSE AttackLoop(SetItem(P, hit), G, targets, k + 1)

\* handle_attack, lines 243-256: the set of outcomes.
AttackEffects(P, G, player_id) ==
    IF NoId(player_id) \/ ~Has(P, player_id)
    THEN {Outcome(P, G, "rejected")}
    ELSE {Outcome(r.P, r.G, "emitted") :
            r \in AttackLoop(P, G, find_targets(P, Get(P, player_id)), 1)}

\* The inner loop of bot_loop, lines 354-359, from the k-th target on.
RECURSIVE BotHits(_, _, _)
BotHits(P, targets, k) ==
    IF k > Len(targets) THEN {P}
    ELSE LET target == Get(P, targets[k])
             hit == [target EXCEPT !.hp = @ - 1]
         IN  IF target.is_bot THEN BotHits(P, targets, k + 1)
             ELSE IF hit.hp <= 0
             THEN UNION {BotHits(SetItem(P, respawn(hit, cell)), targets,
                                 k + 1) : cell \in Cells}
             ELSE BotHits(SetItem(P, hit), targets, k + 1)

\* One bot's turn, lines 349-359: a random direction, then its hits.
BotTurn(P, bot_id) ==
    UNION {LET P1 == SetItem(P, Moved(Get(P, bot_id), direction))
           IN  BotHits(P1, find_targets(P1, Get(P1, bot_id)), 1)
           : direction \in {"up", "down", "left", "right"}}

\* The outer loop of bot_loop, line 348, from the k-th bot on.
RECURSIVE BotTurns(_, _, _)
BotTurns(P, bots, k) ==
    IF k > Len(bots) THEN {P}
    ELSE UNION {BotTurns(P1, bots, k + 1) : P1 \in BotTurn(P, bots[k])}

\* bots = [state for state in PLAYERS.values() if state.is_bot], as ids.
BotsOf(P) ==
    LET F[i \in 0..Len(P)] ==
            IF i = 0 THEN <<>>
            ELSE IF P[i].is_bot THEN Append(F[i - 1], P[i].player_id)
                 ELSE F[i - 1]
    IN  F[Len(P)]

\* One iteration of bot_loop, lines 344-360, and emit_world_state.
BotLoopEffects(P, G) ==
    IF BotsOf(P) = <<>>
    THEN {Outcome(P, G, "idle")}
    ELSE {Outcome(P1, G, IF P1 # <<>> THEN "emitted" ELSE "idle") :
            P1 \in BotTurns(P, BotsOf(P), 1)}

---------------------------------------------------------------------------
(* src/app.py, one action per handler: the handler runs from its first     *)
(* line to its emit without another handler in between.                    *)

Sessions == 1..MaxSessions

\* The "player" values of the payloads explored: ids of human actors, an
\* id no actor has, and none.
PlayerInputs == Names \cup {Uuid(1), Ghost, None}

NoLast == [op |-> "none", exit |-> "none", changed |-> FALSE]

InitGrid ==
    /\ PLAYERS = <<>>
    /\ GLOBAL_STATE = [players |-> 0, global_mutations |-> <<>>,
                       global_biomass |-> 0]
    /\ BOT_TASK_STARTED = FALSE
    /\ sessions = [s \in Sessions |-> [st |-> "new", arg |-> None,
                                       actor |-> None]]
    /\ nextUuid = 0
    /\ nops = 0
    /\ nloops = 0
    /\ last = NoLast

\* A step of the grid program leaves the colony program's variables alone.
GridStep == variant = "grid" /\ UNCHANGED <<variant, threadVars, colonyVars>>

\* What the handler did, for the history variable.
Ran(op, out) ==
    [op |-> op, exit |-> out.exit,
     changed |-> out.P # PLAYERS \/ out.G # GLOBAL_STATE]

Commit(out) ==
    /\ PLAYERS' = out.P
    /\ GLOBAL_STATE' = out.G

\* The ?player= values a connecting client may send: none, a name of its
\* own choosing, or an id it has seen in a snapshot (a bot's).
ConnectArgs ==
    {None} \cup Names \cup (IF BOT_TASK_STARTED THEN {BotId(1)} ELSE {})

\* handle_connect: player_id = request.args.get("player") or uuid4().hex
handle_connect(s, arg) ==
    /\ GridStep
    /\ nops < MaxOps
    /\ nops' = nops + 1
    /\ UNCHANGED nloops
    /\ sessions[s].st = "new"
    /\ LET player_id == IF NoId(arg) THEN Uuid(nextUuid + 1) ELSE arg
       IN  /\ nextUuid' = IF NoId(arg) THEN nextUuid + 1 ELSE nextUuid
           /\ sessions' = [sessions EXCEPT ![s] =
                  [st |-> "open", arg |-> arg, actor |-> player_id]]
           /\ \E cell \in Cells :
              \E botcells \in
                    IF BOT_TASK_STARTED THEN {<<>>}
                    ELSE [1..BOT_COUNT -> Cells] :
                 LET out == ConnectEffect(PLAYERS, GLOBAL_STATE,
                                BOT_TASK_STARTED, player_id, cell, botcells)
                 IN  /\ Commit(out)
                     /\ last' = Ran("connect", out)
    /\ BOT_TASK_STARTED' = TRUE

\* handle_disconnect: player_id = request.args.get("player")
handle_disconnect(s) ==
    /\ GridStep
    /\ nops < MaxOps
    /\ nops' = nops + 1
    /\ UNCHANGED nloops
    /\ sessions[s].st = "open"
    /\ sessions' = [sessions EXCEPT ![s].st = "closed"]
    /\ LET out == DisconnectEffect(PLAYERS, GLOBAL_STATE, sessions[s].arg)
       IN  /\ Commit(out)
           /\ last' = Ran("disconnect", out)
    /\ UNCHANGED <<BOT_TASK_STARTED, nextUuid>>

handle_mutate(player_id, mutation) ==
    /\ GridStep
    /\ nops < MaxOps
    /\ nops' = nops + 1
    /\ UNCHANGED nloops
    /\ LET out == MutateEffect(PLAYERS, GLOBAL_STATE, player_id, mutation)
       IN  /\ Commit(out)
           /\ last' = Ran("mutate", out)
    /\ UNCHANGED <<BOT_TASK_STARTED, sessions, nextUuid>>

handle_move(player_id, direction) ==
    /\ GridStep
    /\ nops < MaxOps
    /\ nops' = nops + 1
    /\ UNCHANGED nloops
    /\ LET out == MoveEffect(PLAYERS, GLOBAL_STATE, player_id, direction)
       IN  /\ Commit(out)
           /\ last' = Ran("move", out)
    /\ UNCHANGED <<BOT_TASK_STARTED, sessions, nextUuid>>

handle_attack(player_id) ==
    /\ GridStep
    /\ nops < MaxOps
    /\ nops' = nops + 1
    /\ UNCHANGED nloops
    /\ \E out \in AttackEffects(PLAYERS, GLOBAL_STATE, player_id) :
           /\ Commit(out)
           /\ last' = Ran("attack", out)
    /\ UNCHANGED <<BOT_TASK_STARTED, sessions, nextUuid>>

\* One iteration of the background task ensure_bots_running started.
bot_loop ==
    /\ GridStep
    /\ nops < MaxOps /\ nloops < MaxLoops
    /\ nloops' = nloops + 1 /\ nops' = nops + 1
    /\ BOT_TASK_STARTED
    /\ \E out \in BotLoopEffects(PLAYERS, GLOBAL_STATE) :
           /\ Commit(out)
           /\ last' = Ran("bot_loop", out)
    /\ UNCHANGED <<BOT_TASK_STARTED, sessions, nextUuid>>

NextGrid ==
    \/ \E s \in Sessions : \E arg \in ConnectArgs : handle_connect(s, arg)
    \/ \E s \in Sessions : handle_disconnect(s)
    \/ \E player_id \in PlayerInputs : \E mutation \in MutationInputs :
           handle_mutate(player_id, mutation)
    \/ \E player_id \in PlayerInputs : \E direction \in DirectionInputs :
           handle_move(player_id, direction)
    \/ \E player_id \in PlayerInputs : handle_attack(player_id)
    \/ bot_loop


---------------------------------------------------------------------------
(* src/server.py: the world and its tick. *)

\* Floats are kept in thousandths: energy, nutrients and acidity are
\* integers of unit 0.001.
Milli == 1000

\* max(10.0, 60 + math.sin(tick / 10) * 15), in thousandths, for the ticks
\* explored.
NutrientsAt(tick) ==
    CASE tick = 1 -> 61498 [] tick = 2 -> 62980 [] tick = 3 -> 64433
      [] tick = 4 -> 65841 [] tick = 5 -> 67191 [] tick = 6 -> 68470
      [] tick = 7 -> 69663 [] tick = 8 -> 70760

\* max(0.0, 10 + math.cos(tick / 12) * 4), in thousandths.
AcidityAt(tick) ==
    CASE tick = 1 -> 13986 [] tick = 2 -> 13945 [] tick = 3 -> 13876
      [] tick = 4 -> 13780 [] tick = 5 -> 13658 [] tick = 6 -> 13510
      [] tick = 7 -> 13339 [] tick = 8 -> 13144

Traits(growth, defense, speed, survival, attack) ==
    [growth |-> growth, defense |-> defense, speed |-> speed,
     survival |-> survival, attack |-> attack]

\* EVOLUTION_TREE[id]["effects"], a trait absent from the mapping as 0.
EVOLUTION_TREE ==
    [membranes |-> Traits(0, 2, -1, 0, 0),
     spores |-> Traits(-1, 0, 0, 3, 0),
     flagella |-> Traits(1, 0, 3, 0, 0),
     biofilm |-> Traits(-1, 3, 0, 0, 0),
     chemotaxis |-> Traits(2, 0, 0, 0, 0),
     predation |-> Traits(1, 0, 0, 0, 3)]

\* The "id" values of evolution:select explored.
EvolutionInputs == {"membranes", "bogus", UNHASHABLE, ""}

\* secrets.token_hex(4) of the h-th connection.
Token(h) == <<"token", h>>

create_bacteria(identifier) ==
    [identifier |-> identifier, traits |-> Traits(5, 1, 1, 1, 0),
     evolution |-> <<>>, energy |-> 50 * Milli, population |-> 1]

apply_evolution(bacteria, evolution_id) ==
    IF evolution_id \notin DOMAIN EVOLUTION_TREE
         \/ InSeq(evolution_id, bacteria.evolution)
    THEN bacteria
    ELSE [bacteria EXCEPT
             !.evolution = Append(@, evolution_id),
             !.traits = [key \in DOMAIN @ |->
                            @[key] + EVOLUTION_TREE[evolution_id][key]]]

\* The body of the loop of update_world without the max(0.0, ...) of
\* line 150.
GrownUnclamped(bacteria, global_traits) ==
    LET growth_boost == (bacteria.traits.growth + bacteria.traits.speed)
                            * Milli
        survival_penalty ==
            Max(0, global_traits.acidity - bacteria.traits.defense * Milli)
        nutrient_bonus == global_traits.nutrients \div 10
        delta == growth_boost + nutrient_bonus - survival_penalty
        b1 == [bacteria EXCEPT !.energy = @ + delta]
        b2 == IF b1.energy > 100 * Milli
              THEN [b1 EXCEPT !.population = @ + 1,
                              !.energy = @ - 30 * Milli]
              ELSE b1
    IN  IF b2.energy < 5 * Milli
        THEN [b2 EXCEPT !.population = Max(1, @ - 1),
                        !.energy = @ + 10 * Milli]
        ELSE b2

\* The body of the loop of update_world, lines 142-156, for one bacterium.
Grown(bacteria, global_traits) ==
    LET growth_boost == (bacteria.traits.growth + bacteria.traits.speed)
                            * Milli
        survival_penalty ==
            Max(0, global_traits.acidity - bacteria.traits.defense * Milli)
        nutrient_bonus == global_traits.nutrients \div 10
        delta == growth_boost + nutrient_bonus - survival_penalty
        b1 == [bacteria EXCEPT !.energy = Max(0, @ + delta)]
        b2 == IF b1.energy > 100 * Milli
              THEN [b1 EXCEPT !.population = @ + 1,
                              !.energy = @ - 30 * Milli]
              ELSE b1
    IN  IF b2.energy < 5 * Milli
        THEN [b2 EXCEPT !.population = Max(1, @ - 1),
                        !.energy = @ + 10 * Milli]
        ELSE b2

update_world(w) ==
    LET tick == w.tick + 1
        global_traits == [nutrients |-> NutrientsAt(tick),
                          acidity |-> AcidityAt(tick),
                          temperature |-> 20]
    IN  [tick |-> tick,
         global_traits |-> global_traits,
         bacteria |-> [i \in 1..Len(w.bacteria) |->
                          Grown(w.bacteria[i], global_traits)]]

\* dict operations on world.bacteria (a sequence, identifiers unique).
BIndex(B, identifier) ==
    CHOOSE i \in 1..Len(B) : B[i].identifier = identifier
BHas(B, identifier) == \E i \in 1..Len(B) : B[i].identifier = identifier
BPop(B, identifier) ==
    IF BHas(B, identifier)
    THEN LET i == BIndex(B, identifier)
         IN  SubSeq(B, 1, i - 1) \o SubSeq(B, i + 1, Len(B))
    ELSE B

---------------------------------------------------------------------------
(* src/server.py: sockets, inbound messages and broadcast.                 *)
(*                                                                         *)
(* A socket is "none" before its connection, then "open"; "closed" once    *)
(* its own receive loop has seen the close (WebSocketResponse.closed is    *)
(* true); "lost" when the transport is gone while .closed is still false:  *)
(* a send_str on it raises.                                                *)

WorldLoop == 0
Tasks == {WorldLoop} \cup Sessions

\* The inbound messages explored, by what the code tests of them:
\* message.type, whether message.data parses, whether the parsed value is
\* an object, its "type", its "payload" and the payload's "id".
Frame(type, json, mtype, payload, id) ==
    [type |-> type, json |-> json, mtype |-> mtype, payload |-> payload,
     id |-> id]
TextFrames ==
    {Frame("TEXT", "invalid", "-", "-", ""),
     Frame("TEXT", "nonobject", "-", "-", ""),
     Frame("TEXT", "object", "other", "-", ""),
     Frame("TEXT", "object", "evolution:select", "missing", ""),
     Frame("TEXT", "object", "evolution:select", "nonobject", "")}
    \cup {Frame("TEXT", "object", "evolution:select", "object", id) :
            id \in EvolutionInputs}
FrameInputs ==
    TextFrames \cup {Frame(type, "-", "-", "-", "") :
                        type \in {"BINARY", "ERROR", "CLOSE"}}

\* Lines 194-205 up to the call of apply_evolution: "continue" (the frame
\* is dropped), "raised" (an exception leaves the handler), or "select".
Decoded(message) ==
    IF message.json = "invalid" THEN "continue"
    ELSE IF message.json = "nonobject" THEN "raised"
    ELSE IF message.mtype # "evolution:select" THEN "continue"
    ELSE IF message.payload = "nonobject" THEN "raised"
    ELSE LET evolution_id ==
                 IF message.payload = "missing" THEN "" ELSE message.id
         IN  IF Falsy(evolution_id) THEN "continue"
             ELSE IF evolution_id = UNHASHABLE THEN "raised"
             ELSE "select"

\* One call of broadcast(): the version of the payload, the position of the
\* iterator over `clients` (a set iterates in the order of its hash
\* table, here the order of the sockets' indices; which socket connects
\* first is free), the list `closed`, the size of the set when the iterator
\* was made, and (history) the sockets the payload was written to.
NoCall == [ver |-> 0, pos |-> 0, closed |-> {}, used |-> 0, got |-> {}]
NewCall(ver, cl) ==
    [ver |-> ver, pos |-> 0, closed |-> {}, used |-> Cardinality(cl),
     got |-> {}]

SetMin(S) == CHOOSE x \in S : \A y \in S : x <= y

\* broadcast(), lines 123-129, from the iterator's next step to the next
\* await: "sent" (suspended in send_str to `to`), "done" (returned), or
\* the exception that leaves it.
RECURSIVE BroadcastRun(_, _, _)
BroadcastRun(call, cl, sk) ==
    IF Cardinality(cl) # call.used
    THEN [status |-> "RuntimeError", call |-> call, to |-> 0]
    ELSE IF {c \in cl : c > call.pos} = {}
    THEN [status |-> "done", call |-> call, to |-> 0]
    ELSE LET client == SetMin({c \in cl : c > call.pos})
         IN  IF sk[client] = "closed"
             THEN BroadcastRun([call EXCEPT !.pos = client,
                                            !.closed = @ \cup {client}],
                               cl, sk)
             ELSE IF sk[client] = "lost"
             THEN [status |-> "ConnectionResetError",
                   call |-> [call EXCEPT !.pos = client], to |-> client]
             ELSE [status |-> "sent",
                   call |-> [call EXCEPT !.pos = client,
                                         !.got = @ \cup {client}],
                   to |-> client]

\* A task: where it is, where it continues when its call of broadcast
\* returns, and that call.  A task an exception has ended is "raised", with
\* what raised in place of the continuation.
Task(pc, then, call) == [pc |-> pc, then |-> then, call |-> call]
Raised(what) == Task("raised", what, NoCall)
BroadcastErrors == {"RuntimeError", "ConnectionResetError"}

InitColony ==
    /\ world = [tick |-> 0, bacteria |-> <<>>,
                global_traits |-> [nutrients |-> 50 * Milli, acidity |-> 0,
                                   temperature |-> 20]]
    /\ clients = {}
    /\ sock = [h \in Sessions |-> "none"]
    /\ task = [t \in Tasks |->
                  IF t = WorldLoop THEN Task("sleep", "-", NoCall)
                  ELSE Task("new", "-", NoCall)]
    /\ recv = [h \in Sessions |-> 0]
    /\ commits = 0
    /\ shutdown = "running"

\* Task t goes on with its call of broadcast until the next await.  `then`
\* is where the task continues when broadcast returns; an exception ends
\* the task, and a handler's connection with it.
Proceed(t, call, cl, sk, then) ==
    LET r == BroadcastRun(call, cl, sk)
    IN  CASE r.status = "sent" ->
               /\ task' = [task EXCEPT ![t] = Task("send", then, r.call)]
               /\ recv' = [recv EXCEPT ![r.to] = call.ver]
               /\ clients' = cl
               /\ sock' = sk
          [] r.status = "done" ->
               /\ task' = [task EXCEPT ![t] = Task(then, "-", NoCall)]
               /\ recv' = recv
               /\ clients' = cl \ r.call.closed
               /\ sock' = sk
          [] OTHER ->
               /\ task' = [task EXCEPT ![t] = Raised(r.status)]
               /\ recv' = recv
               /\ clients' = cl
               /\ sock' = IF t = WorldLoop \/ sk[t] # "open" THEN sk
                          ELSE [sk EXCEPT ![t] = "lost"]

\* broadcast(message), lines 119-122, then its loop.
Broadcast(t, ver, cl, sk, then) ==
    IF cl = {}
    THEN /\ task' = [task EXCEPT ![t] = Task(then, "-", NoCall)]
         /\ recv' = recv
         /\ clients' = cl
         /\ sock' = sk
    ELSE Proceed(t, NewCall(ver, cl), cl, sk, then)

---------------------------------------------------------------------------
(* src/server.py, one action per stretch of a task between two awaits.     *)

\* A step of the colony program leaves the grid program's variables alone.
ColonyStep ==
    /\ variant = "colony"
    /\ shutdown = "running"
    /\ UNCHANGED <<variant, PLAYERS, GLOBAL_STATE, BOT_TASK_STARTED,
                   sessions, nextUuid, nloops, threadVars, shutdown>>

\* How the step left task t, for the history variable.
Left(op, t) == [op |-> op, exit |-> task'[t].pc, changed |-> world' # world]

\* world_loop, lines 162-164: update_world(), then broadcast up to its
\* first await, or to asyncio.sleep when broadcast returns at once.
world_loop ==
    /\ ColonyStep
    /\ task[WorldLoop].pc = "sleep"
    /\ world.tick < MaxTicks
    /\ world' = update_world(world)
    /\ commits' = commits + 1
    /\ Broadcast(WorldLoop, commits + 1, clients, sock, "sleep")
    /\ UNCHANGED nops
    /\ last' = Left("world_loop", WorldLoop)

\* websocket_handler, lines 174-191, up to the await of send_json.  The
\* first iteration of world_loop has run by the time a connection is
\* accepted: on_startup creates the task before the site listens.
websocket_handler(h) ==
    /\ ColonyStep
    /\ nops < MaxOps
    /\ nops' = nops + 1
    /\ world.tick >= 1
    /\ task[h].pc = "new"
    /\ world' = [world EXCEPT
                    !.bacteria = Append(@, create_bacteria(Token(h)))]
    /\ clients' = clients \cup {h}
    /\ sock' = [sock EXCEPT ![h] = "open"]
    /\ task' = [task EXCEPT ![h] = Task("init", "-", NoCall)]
    /\ commits' = commits + 1
    /\ UNCHANGED recv
    /\ last' = Left("connect", h)

\* send_json returns (line 191) and the handler awaits its first message,
\* or the connection was lost meanwhile and send_json raises.
init_sent(h) ==
    /\ ColonyStep
    /\ task[h].pc = "init"
    /\ task' = [task EXCEPT ![h] =
                   IF sock[h] = "lost" THEN Raised("send_json")
                   ELSE Task("recv", "-", NoCall)]
    /\ UNCHANGED <<world, clients, sock, recv, commits, nops>>
    /\ last' = Left("init", h)

\* One message of `async for message in socket`, lines 193-207.
receive(h, message) ==
    /\ ColonyStep
    /\ nops < MaxOps
    /\ nops' = nops + 1
    /\ task[h].pc = "recv"
    /\ sock[h] = "open"
    /\ IF message.type \in {"ERROR", "CLOSE"}
       THEN \* the loop ends; receive() has closed the socket
            /\ sock' = [sock EXCEPT ![h] = "closed"]
            /\ task' = [task EXCEPT ![h] = Task("closing", "-", NoCall)]
            /\ UNCHANGED <<world, clients, recv, commits>>
       ELSE IF message.type = "BINARY" \/ Decoded(message) = "continue"
       THEN UNCHANGED <<world, clients, sock, task, recv, commits>>
       ELSE IF Decoded(message) = "raised"
       THEN /\ task' = [task EXCEPT ![h] = Raised("decode")]
            /\ sock' = [sock EXCEPT ![h] = "lost"]
            /\ UNCHANGED <<world, clients, recv, commits>>
       ELSE LET i == BIndex(world.bacteria, Token(h))
                evolved == apply_evolution(world.bacteria[i], message.id)
                ver == IF evolved = world.bacteria[i] THEN commits
                       ELSE commits + 1
            IN  /\ world' = [world EXCEPT !.bacteria[i] = evolved]
                /\ commits' = ver
                /\ Broadcast(h, ver, clients, sock, "recv")
    /\ last' = [op |-> "frame",
                exit |-> IF message.type \in {"ERROR", "CLOSE"} THEN "closing"
                         ELSE IF message.type = "BINARY" THEN "continue"
                         ELSE IF Decoded(message) = "select" THEN "broadcast"
                         ELSE Decoded(message),
                changed |-> world' # world]

\* The transport of an open connection goes away (the peer vanished).
connection_lost(h) ==
    /\ ColonyStep
    /\ nops < MaxOps
    /\ nops' = nops + 1
    /\ sock[h] = "open"
    /\ task[h].pc \in {"init", "recv", "send"}
    /\ sock' = [sock EXCEPT ![h] = "lost"]
    /\ last' = [op |-> "lost", exit |-> task[h].pc, changed |-> FALSE]
    /\ UNCHANGED <<world, clients, task, recv, commits>>

\* The receive loop of a lost connection ends: receive() closes the socket.
receive_closed(h) ==
    /\ ColonyStep
    /\ task[h].pc = "recv"
    /\ sock[h] = "lost"
    /\ sock' = [sock EXCEPT ![h] = "closed"]
    /\ task' = [task EXCEPT ![h] = Task("closing", "-", NoCall)]
    /\ UNCHANGED <<world, clients, recv, commits, nops>>
    /\ last' = Left("close", h)

\* Lines 209-211: after the loop, up to the first await of broadcast.
cleanup(h) ==
    /\ ColonyStep
    /\ task[h].pc = "closing"
    /\ world' = [world EXCEPT !.bacteria = BPop(@, Token(h))]
    /\ commits' = commits + 1
    /\ Broadcast(h, commits + 1, clients \ {h}, sock, "ended")
    /\ UNCHANGED nops
    /\ last' = Left("cleanup", h)

\* Task t resumes from the await of send_str, line 127: the send raises
\* when that connection was lost meanwhile, else the loop goes on.
resume(t) ==
    /\ ColonyStep
    /\ task[t].pc = "send"
    /\ IF sock[task[t].call.pos] = "lost"
       THEN /\ task' = [task EXCEPT ![t] = Raised("ConnectionResetError")]
            /\ sock' = IF t = WorldLoop \/ sock[t] # "open" THEN sock
                       ELSE [sock EXCEPT ![t] = "lost"]
            /\ UNCHANGED <<clients, recv>>
       ELSE Proceed(t, task[t].call, clients, sock, task[t].then)
    /\ UNCHANGED <<world, commits, nops>>
    /\ last' = Left("resume", t)

\* create_app.on_cleanup, lines 225-228: world_task.cancel(), then the task
\* is awaited under contextlib.suppress(asyncio.CancelledError).  A task
\* that sleeps or is suspended in a send gets CancelledError at its await,
\* which world_loop catches, line 165, and returns.  cancel() does nothing
\* to a task an exception has ended, and awaiting it raises that exception.
on_cleanup ==
    /\ variant = "colony"
    /\ shutdown = "running"
    /\ IF task[WorldLoop].pc = "raised"
       THEN /\ shutdown' = "raised"
            /\ UNCHANGED task
       ELSE /\ shutdown' = "clean"
            /\ task' = [task EXCEPT ![WorldLoop] = Task("returned", "-", NoCall)]
    /\ last' = [op |-> "on_cleanup", exit |-> task[WorldLoop].pc,
                changed |-> FALSE]
    /\ UNCHANGED <<variant, PLAYERS, GLOBAL_STATE, BOT_TASK_STARTED, sessions,
                   nextUuid, nloops, nops, threadVars, world, clients, sock,
                   recv, commits>>

NextColony ==
    \/ on_cleanup
    \/ world_loop
    \/ \E h \in Sessions : websocket_handler(h)
    \/ \E h \in Sessions : init_sent(h)
    \/ \E h \in Sessions : \E message \in FrameInputs : receive(h, message)
    \/ \E h \in Sessions : connection_lost(h)
    \/ \E h \in Sessions : receive_closed(h)
    \/ \E h \in Sessions : cleanup(h)
    \/ \E t \in Tasks : resume(t)

---------------------------------------------------------------------------
(* src/app.py with its threads.  Flask-SocketIO runs every event handler   *)
(* in a thread of its own and bot_loop as a background task; a step is one *)
(* statement of one thread.  The emit that follows `with LOCK` reads the   *)
(* store in one step.                                                      *)

BotLoop == 0
Handlers == 1..MaxThreads
Threads == {BotLoop} \cup Handlers

\* A thread: its handler, the statement it is about to run (`pc`), and the
\* handler's locals: player_id, the mutation or direction, the list `bots`
\* with the index of the loop over it, the list `targets` with its index,
\* and the biomass of the PlayerState a handler holds.
Thread(op, pc, player_id, input, bots, i, targets, j, biomass) ==
    [op |-> op, pc |-> pc, player_id |-> player_id, input |-> input,
     bots |-> bots, i |-> i, targets |-> targets, j |-> j,
     biomass |-> biomass]
NewThread == Thread("none", "new", None, "", <<>>, 1, <<>>, 1, 1)
Job(op, pc, player_id, input) ==
    Thread(op, pc, player_id, input, <<>>, 1, <<>>, 1, 1)

\* The store as one value.
Store(P, G, started) == [P |-> P, G |-> G, started |-> started]
Now == Store(PLAYERS, GLOBAL_STATE, BOT_TASK_STARTED)

\* The statements a thread runs while it holds LOCK.
Locked ==
    {"c_insert", "c_players", "c_biomass", "c_bots", "c_bot", "c_count",
     "d_pop", "d_players", "d_biomass",
     "m_get", "m_append", "m_biomass", "m_hp", "m_global", "m_count",
     "v_get", "v_x", "v_y",
     "a_get", "a_hit",
     "b_bots", "b_x", "b_y", "b_targets", "b_hit",
     "release", "return"}

At(th, pc) == [th EXCEPT !.pc = pc]
Then(w, th) == [w |-> w, th |-> th]

\* A write to a field of the PlayerState a local refers to.  The object
\* may have left PLAYERS; the write then changes nothing in the store.
Write(w, id, ps) == IF Has(w.P, id) THEN [w EXCEPT !.P = SetItem(@, ps)] ELSE w

\* handle_connect, lines 181-189, and ensure_bots_running, lines 323-338.
ConnectBody(th, w) ==
    CASE th.pc = "c_insert" ->
           {Then([w EXCEPT !.P = SetItem(@, PlayerState(th.player_id,
                                              cell[1], cell[2], FALSE))],
                 At(th, "c_players")) : cell \in Cells}
      [] th.pc = "c_players" ->
           {Then([w EXCEPT !.G.players = Len(w.P)], At(th, "c_biomass"))}
      [] th.pc = "c_biomass" ->
           {Then([w EXCEPT !.G.global_biomass = @ + th.biomass],
                 At(th, "c_bots"))}
      [] th.pc = "c_bots" ->
           IF w.started THEN {Then(w, At(th, "release"))}
           ELSE {Then([w EXCEPT !.started = TRUE],
                      [th EXCEPT !.pc = "c_bot", !.i = 1])}
      [] th.pc = "c_bot" ->
           {Then([w EXCEPT !.P = SetItem(@, PlayerState(BotId(th.i),
                                              cell[1], cell[2], TRUE))],
                 IF th.i = BOT_COUNT THEN At(th, "c_count")
                 ELSE [th EXCEPT !.i = @ + 1]) : cell \in Cells}
      [] th.pc = "c_count" ->
           {Then([w EXCEPT !.G.players = Len(w.P)], At(th, "release"))}

\* handle_disconnect, lines 199-204.  PLAYERS.pop raises KeyError when the
\* key is gone; the with statement releases LOCK as the exception leaves.
DisconnectBody(th, w) ==
    CASE th.pc = "d_pop" ->
           IF ~Has(w.P, th.player_id) THEN {Then(w, At(th, "KeyError"))}
           ELSE {Then([w EXCEPT !.P = Pop(@, th.player_id)],
                      [th EXCEPT !.pc = "d_players",
                                 !.biomass = Get(w.P, th.player_id).biomass])}
      [] th.pc = "d_players" ->
           {Then([w EXCEPT !.G.players = Len(w.P)], At(th, "d_biomass"))}
      [] th.pc = "d_biomass" ->
           {Then([w EXCEPT !.G.global_biomass = Max(0, @ - th.biomass)],
                 At(th, "release"))}

\* handle_mutate, lines 214-222.
MutateBody(th, w) ==
    LET id == th.player_id
        ps == Get(w.P, id)
    IN  CASE th.pc = "m_get" ->
               IF ~Has(w.P, id) THEN {Then(w, At(th, "KeyError"))}
               ELSE IF InSeq(th.input, ps.mutations)
               THEN {Then(w, At(th, "return"))}
               ELSE {Then(w, At(th, "m_append"))}
          [] th.pc = "m_append" ->
               {Then(Write(w, id, [ps EXCEPT !.mutations =
                                       Append(@, th.input)]),
                     At(th, "m_biomass"))}
          [] th.pc = "m_biomass" ->
               {Then(Write(w, id, [ps EXCEPT !.biomass = @ + 1]),
                     At(th, "m_hp"))}
          [] th.pc = "m_hp" ->
               {Then(Write(w, id, [ps EXCEPT !.hp = Min(20, @ + 1)]),
                     At(th, "m_global"))}
          [] th.pc = "m_global" ->
               {Then([w EXCEPT !.G.global_biomass = @ + 1],
                     At(th, "m_count"))}
          [] th.pc = "m_count" ->
               {Then([w EXCEPT !.G.global_mutations = Counted(@, th.input)],
                     At(th, "release"))}

\* handle_move, lines 233-236.
MoveBody(th, w) ==
    LET id == th.player_id
        ps == Get(w.P, id)
        d == direction_to_delta(th.input)
    IN  CASE th.pc = "v_get" ->
               IF ~Has(w.P, id) THEN {Then(w, At(th, "KeyError"))}
               ELSE {Then(w, At(th, "v_x"))}
          [] th.pc = "v_x" ->
               {Then(Write(w, id, [ps EXCEPT !.x =
                                      clamp(@ + d[1], 0, MAP_WIDTH - 1)]),
                     At(th, "v_y"))}
          [] th.pc = "v_y" ->
               {Then(Write(w, id, [ps EXCEPT !.y =
                                      clamp(@ + d[2], 0, MAP_HEIGHT - 1)]),
                     At(th, "release"))}

\* The index of the next target a loop over th.targets still finds in the
\* store, or Len + 1.
RECURSIVE NextTarget(_, _, _)
NextTarget(P, targets, j) ==
    IF j > Len(targets) \/ Has(P, targets[j]) THEN j
    ELSE NextTarget(P, targets, j + 1)

\* handle_attack, lines 247-255.
AttackBody(th, w) ==
    LET id == th.player_id
    IN  CASE th.pc = "a_get" ->
               IF ~Has(w.P, id) THEN {Then(w, At(th, "KeyError"))}
               ELSE {Then(w, [th EXCEPT
                                 !.pc = "a_hit", !.j = 1,
                                 !.targets = find_targets(w.P, Get(w.P, id))])}
          [] th.pc = "a_hit" ->
               LET j == NextTarget(w.P, th.targets, th.j)
               IN  IF j > Len(th.targets) THEN {Then(w, At(th, "release"))}
                   ELSE LET target == Get(w.P, th.targets[j])
                            hit == [target EXCEPT !.hp = @ - 2]
                            next == [th EXCEPT !.j = j + 1]
                        IN  IF hit.hp <= 0
                            THEN {Then([w EXCEPT
                                          !.P = SetItem(@, respawn(hit, cell)),
                                          !.G.global_biomass = Max(0, @ - 1)],
                                       next) : cell \in Cells}
                            ELSE {Then([w EXCEPT !.P = SetItem(@, hit)], next)}

\* random.choice(seq), explored for the first 1 + MaxDraw elements of seq
\* in the statement-level runs.
Drawn(seq) == {seq[k] : k \in 1..Min(Len(seq), 1 + MaxDraw)}

\* One iteration of bot_loop, lines 345-359.
BotBody(th, w) ==
    LET id == IF th.i <= Len(th.bots) THEN th.bots[th.i] ELSE None
    IN  CASE th.pc = "b_bots" ->
               IF BotsOf(w.P) = <<>> THEN {Then(w, At(th, "return"))}
               ELSE {Then(w, [th EXCEPT !.pc = "b_x", !.i = 1,
                                        !.bots = BotsOf(w.P)])}
          [] th.pc = "b_x" ->
               IF th.i > Len(th.bots) THEN {Then(w, At(th, "release"))}
               ELSE {Then(Write(w, id,
                            [Get(w.P, id) EXCEPT !.x =
                                clamp(@ + direction_to_delta(direction)[1],
                                      0, MAP_WIDTH - 1)]),
                          [th EXCEPT !.pc = "b_y", !.input = direction])
                       : direction \in
                           Drawn(<<"up", "down", "left", "right">>)}
          [] th.pc = "b_y" ->
               {Then(Write(w, id,
                       [Get(w.P, id) EXCEPT !.y =
                           clamp(@ + direction_to_delta(th.input)[2],
                                 0, MAP_HEIGHT - 1)]),
                     [th EXCEPT !.pc = "b_targets", !.input = ""])}
          [] th.pc = "b_targets" ->
               {Then(w, [th EXCEPT !.pc = "b_hit", !.j = 1,
                                   !.targets = find_targets(w.P,
                                                   Get(w.P, id))])}
          [] th.pc = "b_hit" ->
               LET j == NextTarget(w.P, th.targets, th.j)
               IN  IF j > Len(th.targets)
                   THEN {Then(w, [th EXCEPT !.pc = "b_x", !.i = @ + 1,
                                            !.targets = <<>>, !.j = 1])}
                   ELSE LET target == Get(w.P, th.targets[j])
                            hit == [target EXCEPT !.hp = @ - 1]
                            next == [th EXCEPT !.j = j + 1]
                        IN  IF target.is_bot THEN {Then(w, next)}
                            ELSE IF hit.hp <= 0
                            THEN {Then([w EXCEPT
                                          !.P = SetItem(@, respawn(hit, cell))],
                                       next) : cell \in Cells}
                            ELSE {Then([w EXCEPT !.P = SetItem(@, hit)], next)}

\* The next statement of thread th's handler under LOCK.
Body(th, w) ==
    CASE th.op = "connect" -> ConnectBody(th, w)
      [] th.op = "disconnect" -> DisconnectBody(th, w)
      [] th.op = "mutate" -> MutateBody(th, w)
      [] th.op = "move" -> MoveBody(th, w)
      [] th.op = "attack" -> AttackBody(th, w)
      [] th.op = "bot_loop" -> BotBody(th, w)

\* What the handler of thread th does to store w when nothing else runs
\* from its first line to its last: the operators of the first part.
Alone(th, w) ==
    CASE th.op = "connect" ->
           {Store(out.P, out.G, TRUE) :
              out \in {ConnectEffect(w.P, w.G, w.started, th.player_id,
                                     cell, botcells) :
                         cell \in Cells,
                         botcells \in IF w.started THEN {<<>>}
                                      ELSE [1..BOT_COUNT -> Cells]}}
      [] th.op = "disconnect" ->
           {LET out == DisconnectEffect(w.P, w.G, th.player_id)
            IN  Store(out.P, out.G, w.started)}
      [] th.op = "mutate" ->
           {LET out == MutateEffect(w.P, w.G, th.player_id, th.input)
            IN  Store(out.P, out.G, w.started)}
      [] th.op = "move" ->
           {LET out == MoveEffect(w.P, w.G, th.player_id, th.input)
            IN  Store(out.P, out.G, w.started)}
      [] th.op = "attack" ->
           {Store(out.P, out.G, w.started) :
              out \in AttackEffects(w.P, w.G, th.player_id)}
      [] th.op = "bot_loop" ->
           {Store(out.P, out.G, w.started) : out \in BotLoopEffects(w.P, w.G)}

InitThreads ==
    /\ LOCK = FALSE
    /\ thr = [t \in Threads |-> NewThread]
    /\ serial = Store(<<>>,
                      [players |-> 0, global_mutations |-> <<>>,
                       global_biomass |-> 0],
                      FALSE)

ThreadStep ==
    /\ variant = "threads"
    /\ UNCHANGED <<variant, nops, last, colonyVars>>

\* The inputs of the events.
ThreadPlayers == Names
ThreadMutations == {"shell"}
ThreadDirections == {"right"}

\* Events are numbered in the order their handlers start.
MayStart(t) ==
    /\ thr[t].pc = "new"
    /\ \A u \in Handlers : u < t => thr[u].pc # "new"

\* A connect event arrives; line 179.
start_connect(t, s, arg) ==
    /\ ThreadStep
    /\ MayStart(t)
    /\ sessions[s].st = "new"
    /\ LET player_id == IF NoId(arg) THEN Uuid(nextUuid + 1) ELSE arg
       IN  /\ nextUuid' = IF NoId(arg) THEN nextUuid + 1 ELSE nextUuid
           /\ sessions' = [sessions EXCEPT ![s] =
                  [st |-> "open", arg |-> arg, actor |-> player_id]]
           /\ thr' = [thr EXCEPT ![t] = Job("connect", "acquire", player_id, "")]
    /\ UNCHANGED <<PLAYERS, GLOBAL_STATE, BOT_TASK_STARTED, nloops, LOCK,
                   serial>>

\* A disconnect event arrives for a connected session; line 196.
start_disconnect(t, s) ==
    /\ ThreadStep
    /\ MayStart(t)
    /\ sessions[s].st = "open"
    /\ sessions' = [sessions EXCEPT ![s].st = "closed"]
    /\ thr' = [thr EXCEPT ![t] =
                  Job("disconnect", "validate", sessions[s].arg, "")]
    /\ UNCHANGED <<PLAYERS, GLOBAL_STATE, BOT_TASK_STARTED, nextUuid, nloops,
                   LOCK, serial>>

\* A mutate, move or attack event arrives; lines 210-211, 229-230, 243.
start_command(t, op, player_id, input) ==
    /\ ThreadStep
    /\ MayStart(t)
    /\ thr' = [thr EXCEPT ![t] = Job(op, "validate", player_id, input)]
    /\ UNCHANGED <<PLAYERS, GLOBAL_STATE, BOT_TASK_STARTED, sessions,
                   nextUuid, nloops, LOCK, serial>>

\* bot_loop wakes from time.sleep; line 343.
wake ==
    /\ ThreadStep
    /\ BOT_TASK_STARTED
    /\ thr[BotLoop].pc \in {"new", "done"}
    /\ nloops < MaxLoops
    /\ nloops' = nloops + 1
    /\ thr' = [thr EXCEPT ![BotLoop] = Job("bot_loop", "acquire", None, "")]
    /\ UNCHANGED <<PLAYERS, GLOBAL_STATE, BOT_TASK_STARTED, sessions,
                   nextUuid, LOCK, serial>>

\* The validation line of a handler, outside LOCK: lines 197, 212, 231, 245.
validate(t) ==
    /\ ThreadStep
    /\ thr[t].pc = "validate"
    /\ thr' = [thr EXCEPT ![t].pc =
                  IF \/ NoId(thr[t].player_id)
                     \/ ~Has(PLAYERS, thr[t].player_id)
                     \/ (thr[t].op \in {"mutate", "move"} /\ Falsy(thr[t].input))
                  THEN "rejected" ELSE "acquire"]
    /\ UNCHANGED <<PLAYERS, GLOBAL_STATE, BOT_TASK_STARTED, sessions,
                   nextUuid, nloops, LOCK, serial>>

\* The first statement a handler runs once it holds LOCK.
First(op) ==
    CASE op = "connect" -> "c_insert"
      [] op = "disconnect" -> "d_pop"
      [] op = "mutate" -> "m_get"
      [] op = "move" -> "v_get"
      [] op = "attack" -> "a_get"
      [] op = "bot_loop" -> "b_bots"

\* A lock that excludes nobody.
MayAcquireHeld(lock, t) == TRUE

\* LOCK.acquire() returns when no thread holds the lock.
MayAcquire(lock, t) == ~lock

\* `with LOCK:`, __enter__.
acquire(t) ==
    /\ ThreadStep
    /\ thr[t].pc = "acquire"
    /\ MayAcquire(LOCK, t)
    /\ LOCK' = TRUE
    /\ thr' = [thr EXCEPT ![t].pc = First(thr[t].op)]
    /\ UNCHANGED <<PLAYERS, GLOBAL_STATE, BOT_TASK_STARTED, sessions,
                   nextUuid, nloops, serial>>

\* One statement under LOCK.  A KeyError leaves the with block, which
\* releases the lock, and ends the handler.
run(t) ==
    /\ ThreadStep
    /\ thr[t].pc \in Locked \ {"release", "return"}
    /\ \E r \in Body(thr[t], Now) :
          /\ PLAYERS' = r.w.P
          /\ GLOBAL_STATE' = r.w.G
          /\ BOT_TASK_STARTED' = r.w.started
          /\ thr' = [thr EXCEPT ![t] = r.th]
          /\ LOCK' = IF r.th.pc = "KeyError" THEN FALSE ELSE LOCK
          /\ serial' = IF r.th.pc = "KeyError" THEN r.w ELSE serial
    /\ UNCHANGED <<sessions, nextUuid, nloops>>

\* `with LOCK:`, __exit__.  The block was left at its end ("release"), and
\* the handler goes on to its emit, or by `return` / `continue` ("return"),
\* and it emits nothing.
release(t) ==
    /\ ThreadStep
    /\ thr[t].pc \in {"release", "return"}
    /\ LOCK' = FALSE
    /\ serial' = Now
    /\ thr' = [thr EXCEPT ![t].pc =
                  IF thr[t].pc = "return" THEN "done" ELSE "emit"]
    /\ UNCHANGED <<PLAYERS, GLOBAL_STATE, BOT_TASK_STARTED, sessions,
                   nextUuid, nloops>>

\* emit("state", build_state(player_state), broadcast=True) after the with
\* block, and emit_world_state() in bot_loop: build_state reads PLAYERS and
\* GLOBAL_STATE as they are now, without LOCK.
emit(t) ==
    /\ ThreadStep
    /\ thr[t].pc = "emit"
    /\ thr' = [thr EXCEPT ![t].pc = "done"]
    /\ UNCHANGED <<PLAYERS, GLOBAL_STATE, BOT_TASK_STARTED, sessions,
                   nextUuid, nloops, LOCK, serial>>

NextThreads ==
    \/ \E t \in Handlers : \E s \in Sessions : \E arg \in {None} \cup Names :
           start_connect(t, s, arg)
    \/ \E t \in Handlers : \E s \in Sessions : start_disconnect(t, s)
    \/ \E t \in Handlers : \E player_id \in ThreadPlayers :
           \/ \E mutation \in ThreadMutations :
                  start_command(t, "mutate", player_id, mutation)
           \/ \E direction \in ThreadDirections :
                  start_command(t, "move", player_id, direction)
           \/ start_command(t, "attack", player_id, "")
    \/ wake
    \/ \E t \in Threads : validate(t)
    \/ \E t \in Threads : acquire(t)
    \/ \E t \in Threads : run(t)
    \/ \E t \in Threads : release(t)
    \/ \E t \in Threads : emit(t)

---------------------------------------------------------------------------
(* The specifications. *)

\* Nothing has run yet in either program.
Fresh == InitGrid /\ InitThreads /\ InitColony

\* A run of either program, each handler of src/app.py as one step.
Init == variant \in {"grid", "colony"} /\ Fresh
Next == NextGrid \/ NextColony
Spec == Init /\ [][Next]_vars

\* A run of src/server.py in which the event loop runs the tick loop
\* whenever it is ready: asyncio.sleep(1.5) ends and a ready task is
\* scheduled.  Whether a pending send to a session completes is up to that
\* session's client, so no fairness is stated for resume.
InitTicking == variant = "colony" /\ Fresh
SpecTicking == InitTicking /\ [][NextColony]_vars /\ WF_vars(world_loop)

\* Runs that start in the middle of a game.  The stores below are ones the
\* programs reach after more steps than MaxOps explores from Fresh: actors
\* and bots stand on cells at the corners of the map (random.randint draws
\* any cell), an actor's hp has been worn down by bots (-1 a hit) and a
\* bot's by attacks (-2 a hit), a kill has taken the joining biomass out of
\* global_biomass; a bacterium's energy has drifted near the thresholds of
\* update_world over earlier ticks, with or without an evolution selected.
ArenaCells == {<<0, 0>>, <<1, 1>>, <<MAP_WIDTH - 1, MAP_HEIGHT - 1>>}
ArenaActor(id, cell, hp, bot) ==
    [PlayerState(id, cell[1], cell[2], bot) EXCEPT !.hp = hp]

InitArenaGrid ==
    /\ \E cell \in ArenaCells, hp \in {1, 10} :
       \E botcell \in ArenaCells, bothp \in {2, 10} :
          PLAYERS = <<ArenaActor(Name(1), cell, hp, FALSE),
                      ArenaActor(BotId(1), botcell, bothp, TRUE),
                      ArenaActor(BotId(2), botcell, 10, TRUE),
                      ArenaActor(BotId(3), <<5, 4>>, 10, TRUE),
                      ArenaActor(BotId(4), <<5, 4>>, 10, TRUE)>>
    /\ \E global_biomass \in {0, 1} :
          GLOBAL_STATE = [players |-> 1 + BOT_COUNT,
                          global_mutations |-> <<>>,
                          global_biomass |-> global_biomass]
    /\ BOT_TASK_STARTED = TRUE
    /\ sessions = [s \in Sessions |->
                      IF s = 1
                      THEN [st |-> "open", arg |-> Name(1),
                            actor |-> Name(1)]
                      ELSE [st |-> "new", arg |-> None, actor |-> None]]
    /\ nextUuid = 0
    /\ nops = Max(0, MaxOps - ArenaOps)
    /\ nloops = 0
    /\ last = NoLast

\* The bacteria of a connected session, by energy (in thousandths) and
\* population: as created, or after evolution:select of "flagella".
ArenaBacteria ==
    {[create_bacteria(Token(1)) EXCEPT
         !.energy = energy, !.population = population] :
        energy \in {300, 5200}, population \in {1, 2}}
    \cup {[apply_evolution(create_bacteria(Token(1)), "flagella") EXCEPT
              !.energy = 99500]}

InitArenaColony ==
    /\ \E b \in ArenaBacteria :
          world = [tick |-> 1,
                   bacteria |-> <<b>>,
                   global_traits |-> [nutrients |-> NutrientsAt(1),
                                      acidity |-> AcidityAt(1),
                                      temperature |-> 20]]
    /\ clients = {1}
    /\ sock = [h \in Sessions |-> IF h = 1 THEN "open" ELSE "none"]
    /\ task = [t \in Tasks |->
                  IF t = WorldLoop THEN Task("sleep", "-", NoCall)
                  ELSE IF t = 1 THEN Task("recv", "-", NoCall)
                  ELSE Task("new", "-", NoCall)]
    /\ recv = [h \in Sessions |-> 0]
    /\ commits = 2
    /\ shutdown = "running"

InitArena ==
    /\ variant \in {"grid", "colony"}
    /\ InitThreads
    /\ IF variant = "grid" THEN InitArenaGrid /\ InitColony
       ELSE InitArenaColony /\ InitGrid
SpecArena == InitArena /\ [][Next]_vars

\* A run of src/app.py, each statement of a handler's thread as one step.
InitSteps == variant = "threads" /\ Fresh
SpecThreads == InitSteps /\ [][NextThreads]_vars

---------------------------------------------------------------------------
(* The claims of the specification, as formulas over Spec and SpecThreads. *)

\* C1: the store after any interleaving of the handlers' and bot_loop's
\* statements is the store a serial order of them produces: at most one
\* thread is inside `with LOCK`, the store changes only there, and when a
\* thread leaves the block the store is what its handler, run alone from
\* the store the previous holder left, produces.
C1_Serializable ==
    /\ [](/\ Cardinality({t \in Threads : thr[t].pc \in Locked}) <= 1
          /\ (~LOCK => Now = serial))
    /\ [][\A t \in Threads :
             (thr[t].pc \in Locked /\ thr'[t].pc \notin Locked)
                 => Store(PLAYERS', GLOBAL_STATE', BOT_TASK_STARTED')
                        \in Alone(thr[t], serial)]_vars

\* bot_loop has applied part of its writes while a command waits for LOCK.
C1_Witness ==
    /\ thr[BotLoop].pc \in Locked
    /\ Now # serial
    /\ \E u \in Handlers :
          thr[u].pc = "acquire" /\ thr[u].op \in {"mutate", "move", "attack"}

\* C2: a disconnect removes the session's actor from the world and lowers
\* the players count by one, whether the session's id was supplied by the
\* caller or generated by the server; the bots are left as they were.
C2_DisconnectRemovesActor ==
    [][\A s \in Sessions :
          handle_disconnect(s) =>
              /\ ~Has(PLAYERS', sessions[s].actor)
              /\ GLOBAL_STATE'.players = GLOBAL_STATE.players - 1
              /\ BotsOf(PLAYERS') = BotsOf(PLAYERS)]_vars

\* C3: a join that asks for an id an actor already holds (a human's or a
\* bot's) is given a fresh id, leaves the existing actor unchanged, and no
\* two open sessions share an actor.
C3_JoinKeepsHeldActors ==
    [][\A s \in Sessions : \A arg \in Names \cup {BotId(1)} :
          (handle_connect(s, arg) /\ Has(PLAYERS, arg)) =>
              /\ sessions'[s].actor # arg
              /\ ~Has(PLAYERS, sessions'[s].actor)
              /\ Get(PLAYERS', arg) = Get(PLAYERS, arg)
              /\ \A o \in Sessions \ {s} :
                     sessions'[o].st = "open" =>
                         sessions'[o].actor # sessions'[s].actor]_vars

\* C11: every snapshot is a copy of the store at a commit boundary: what
\* build_state reads is the store as the last holder of LOCK left it,
\* never the partial writes of a handler that is inside the block.
C11_SnapshotAtCommitBoundary ==
    [][\A t \in Threads : emit(t) => Now = serial]_vars

\* C12: a session whose write never completes does not stop the simulation:
\* a tick loop that is waiting in a send to a session always gets past that
\* send, back to the sleep from which the next tick is applied (or it is
\* ended by an exception or by shutdown), whether or not the send completes.
C12_TicksContinue ==
    task[WorldLoop].pc = "send" ~> task[WorldLoop].pc # "send"

\* C13: on_cleanup never ends with an exception, whatever the tick loop
\* was doing, and no update_world runs once it has returned.
C13_ShutdownIsClean ==
    /\ [](shutdown # "raised")
    /\ [][shutdown # "running" => world' = world]_vars

\* C14: when a websocket_handler has ended, by the end of its receive loop
\* or by an exception of its first send_json or of a broadcast it awaited,
\* its bacterium is not in world.bacteria and its socket is not in clients.
C14_NoOrphans ==
    \A h \in Sessions :
        (\/ task[h].pc = "ended"
         \/ /\ task[h].pc = "raised"
            /\ task[h].then \in {"send_json"} \cup BroadcastErrors) =>
            /\ ~BHas(world.bacteria, Token(h))
            /\ h \notin clients

NoDuplicates(seq) ==
    \A i, j \in 1..Len(seq) : seq[i] = seq[j] => i = j

\* C4: no actor holds a mutation id twice, and a mutate command (grid) or
\* an evolution:select (colony) for an id the actor already holds leaves
\* the world state as it was.
C4_MutateIdempotent ==
    /\ [](/\ \A i \in 1..Len(PLAYERS) : NoDuplicates(PLAYERS[i].mutations)
          /\ \A i \in 1..Len(world.bacteria) :
                 NoDuplicates(world.bacteria[i].evolution))
    /\ [][/\ \A player_id \in PlayerInputs : \A mutation \in MutationInputs :
                (/\ handle_mutate(player_id, mutation)
                 /\ Has(PLAYERS, player_id)
                 /\ InSeq(mutation, Get(PLAYERS, player_id).mutations))
                    => UNCHANGED <<PLAYERS, GLOBAL_STATE>>
          /\ \A h \in Sessions : \A message \in TextFrames :
                (/\ receive(h, message)
                 /\ Decoded(message) = "select"
                 /\ InSeq(message.id,
                      world.bacteria[BIndex(world.bacteria, Token(h))]
                          .evolution))
                    => UNCHANGED world]_vars

\* A mutate command for a mutation its actor already holds has run.
C4_Witness ==
    /\ last = [op |-> "mutate", exit |-> "duplicate", changed |-> FALSE]
    /\ \E i \in 1..Len(PLAYERS) : PLAYERS[i].mutations # <<>>

\* C5: a mutate command (grid) or an evolution:select (colony) whose id is
\* a string that is not a node of the evolution catalog changes nothing.
C5_UnknownMutationIsNoOp ==
    [][/\ \A player_id \in PlayerInputs :
          \A mutation \in MutationInputs \ (AppTreeNodes \cup {UNHASHABLE}) :
              handle_mutate(player_id, mutation)
                  => UNCHANGED <<PLAYERS, GLOBAL_STATE>>
       /\ \A h \in Sessions : \A message \in TextFrames :
              (/\ receive(h, message)
               /\ message.id \notin DOMAIN EVOLUTION_TREE \cup {UNHASHABLE})
                  => UNCHANGED world]_vars

\* C6: a command that finds, once it holds LOCK, that its actor is not in
\* the store ends as a silent no-op: no error is raised in the handler and
\* the store is as it was.
C6_MissingActorIsSilentNoOp ==
    [][\A t \in Handlers :
          (/\ thr[t].pc \in {"d_pop", "m_get", "v_get", "a_get"}
           /\ ~Has(PLAYERS, thr[t].player_id)
           /\ thr'[t] # thr[t])
              => /\ thr'[t].pc # "KeyError"
                 /\ Store(PLAYERS', GLOBAL_STATE', BOT_TASK_STARTED') = Now]_vars

\* C7: a malformed inbound text frame never ends the session: the handler
\* is not left by an exception, the session stays registered with its
\* bacterium, and the world is as it was.
C7_MalformedNeverEndsSession ==
    [][\A h \in Sessions : \A message \in TextFrames :
          (receive(h, message) /\ message.id \notin DOMAIN EVOLUTION_TREE) =>
              /\ task'[h].pc # "raised"
              /\ h \in clients'
              /\ BHas(world'.bacteria, Token(h))
              /\ world' = world]_vars

\* C8: a command whose handler returns is followed by a broadcast exactly
\* when it changed the world state.
C8_BroadcastIffChanged ==
    (last.op \in {"mutate", "move", "attack", "frame"}
        /\ last.exit # "raised") =>
            (last.exit \in {"emitted", "broadcast"} <=> last.changed)

\* C9: a call of broadcast never ends in an exception, and when it ends
\* every registered session that is open has been written the payload.
C9_BroadcastIsolatesFailures ==
    [][\A t \in Tasks :
          /\ task'[t].pc = "raised" => task'[t].then \notin BroadcastErrors
          /\ (task[t].pc = "send" /\ task'[t].pc # "send") =>
                 \A c \in clients' :
                     sock'[c] = "open" => c \in task[t].call.got]_vars

\* C10: no session receives an older snapshot after a newer one.
C10_BroadcastsInCommitOrder ==
    [][\A c \in Sessions : recv'[c] >= recv[c]]_vars

\* C15: in the grid variant every actor, human or bot, stands on a cell of
\* the map: 0 <= x < MAP_WIDTH and 0 <= y < MAP_HEIGHT.
C15_PositionsInBounds ==
    \A i \in 1..Len(PLAYERS) :
        /\ 0 <= PLAYERS[i].x /\ PLAYERS[i].x < MAP_WIDTH
        /\ 0 <= PLAYERS[i].y /\ PLAYERS[i].y < MAP_HEIGHT

\* A bot that stood in the far corner of the map has taken its turn, to the
\* right or down, and stands there still (bots 1 and 2 start on one cell).
C15_Witness ==
    /\ variant = "grid"
    /\ last.op = "bot_loop"
    /\ \E i \in 1..Len(PLAYERS) :
          /\ PLAYERS[i].is_bot
          /\ PLAYERS[i].x = MAP_WIDTH - 1
          /\ PLAYERS[i].y = MAP_HEIGHT - 1

\* C16: no resource is negative between two handlers: every actor's hp and
\* biomass and the global biomass are >= 0 (grid), every bacterium's energy
\* is >= 0 and its population >= 1 (colony).
C16_ResourcesNonNegative ==
    /\ \A i \in 1..Len(PLAYERS) :
          PLAYERS[i].hp >= 0 /\ PLAYERS[i].biomass >= 0
    /\ GLOBAL_STATE.global_biomass >= 0
    /\ \A i \in 1..Len(world.bacteria) :
          world.bacteria[i].energy >= 0 /\ world.bacteria[i].population >= 1

\* An actor has left a game whose global biomass a kill had already taken
\* to 0: the subtraction of its biomass met the floor.
C16_Witness ==
    /\ variant = "grid"
    /\ last.op = "disconnect" /\ last.exit = "emitted"
    /\ ~Has(PLAYERS, Name(1))
    /\ BotsOf(PLAYERS) # <<>>
    /\ GLOBAL_STATE.global_biomass = 0

\* C17: once the bot roster is spawned, the store holds exactly BOT_COUNT
\* bots and they are the bots spawned, whatever joins, disconnects,
\* commands and bot iterations follow.
C17_BotRosterKept ==
    BOT_TASK_STARTED =>
        BotsOf(PLAYERS) = [i \in 1..BOT_COUNT |-> BotId(i)]

\* Whether actor `state` is a target of an attack by `attacker`.
InReach(state, attacker) ==
    /\ state.player_id # attacker.player_id
    /\ Max(Abs(state.x - attacker.x), Abs(state.y - attacker.y)) <= 1
Kills(P, attacker) ==
    Cardinality({i \in 1..Len(P) : InReach(P[i], attacker) /\ P[i].hp <= 2})

\* C18: an attack by actor A takes exactly 2 hp from every other actor
\* within Chebyshev distance 1 of A and leaves every other actor, A
\* included, as it was; a target whose hp thereby is <= 0 is respawned on
\* a cell of the map with hp reset to that of a new actor, and the global
\* biomass goes down by 1 for each such kill, not below 0.
C18_AttackSemantics ==
    [][\A player_id \in PlayerInputs :
          (handle_attack(player_id) /\ Has(PLAYERS, player_id)) =>
              LET A == Get(PLAYERS, player_id)
              IN  /\ Len(PLAYERS') = Len(PLAYERS)
                  /\ \A i \in 1..Len(PLAYERS) :
                        LET before == PLAYERS[i]
                            after == PLAYERS'[i]
                        IN  IF ~InReach(before, A)
                            THEN after = before
                            ELSE IF before.hp - 2 > 0
                            THEN after = [before EXCEPT !.hp = @ - 2]
                            ELSE /\ after.hp = PlayerState(None, 0, 0,
                                                           FALSE).hp
                                 /\ 0 <= after.x /\ after.x < MAP_WIDTH
                                 /\ 0 <= after.y /\ after.y < MAP_HEIGHT
                                 /\ [after EXCEPT !.hp = before.hp,
                                                  !.x = before.x,
                                                  !.y = before.y] = before
                  /\ GLOBAL_STATE' =
                        [GLOBAL_STATE EXCEPT
                            !.global_biomass =
                                Max(0, @ - Kills(PLAYERS, A))]]_vars

\* An attack has killed one bot and wounded the bot that stood on the same
\* cell: the first is respawned elsewhere, the second has 8 hp left.
C18_Witness ==
    /\ variant = "grid"
    /\ last.op = "attack" /\ last.exit = "emitted"
    /\ nloops = 0
    /\ Has(PLAYERS, BotId(1)) /\ Has(PLAYERS, BotId(2))
    /\ Get(PLAYERS, BotId(1)).is_bot /\ Get(PLAYERS, BotId(2)).is_bot
    /\ Get(PLAYERS, BotId(1)).hp = 10
    /\ Get(PLAYERS, BotId(2)).hp = 8
    /\ <<Get(PLAYERS, BotId(1)).x, Get(PLAYERS, BotId(1)).y>>
          # <<Get(PLAYERS, BotId(2)).x, Get(PLAYERS, BotId(2)).y>>

\* C19: there is one maxHealth: no actor's hp is above the hp of a freshly
\* respawned actor (nor below 0).
C19_SingleMaxHealth ==
    \A i \in 1..Len(PLAYERS) :
        /\ 0 <= PLAYERS[i].hp
        /\ PLAYERS[i].hp <= respawn(PLAYERS[i], <<0, 0>>).hp

\* The energy the formula of the tick gives bacterium b, in thousandths.
TickEnergy(b, global_traits) ==
    Max(0, b.energy + b.traits.growth * Milli + b.traits.speed * Milli
              + global_traits.nutrients \div 10
              - Max(0, global_traits.acidity - b.traits.defense * Milli))

\* C20: one update_world adds 1 to world.tick and sets every bacterium's
\* energy to max(0, energy + growth + speed + nutrients/10
\* - max(0, acidity - defense)); above 100 the population grows by 1 and
\* the energy goes down by 30, below 5 the population becomes
\* max(1, population - 1) and the energy goes up by 10, never both in one
\* tick; traits and evolution list stay as they were.
C20_TickArithmetic ==
    [][world_loop =>
          /\ world'.tick = world.tick + 1
          /\ Len(world'.bacteria) = Len(world.bacteria)
          /\ \A i \in 1..Len(world.bacteria) :
                LET b == world.bacteria[i]
                    after == world'.bacteria[i]
                    energy == TickEnergy(b, world'.global_traits)
                IN  /\ after.identifier = b.identifier
                    /\ after.traits = b.traits
                    /\ after.evolution = b.evolution
                    /\ IF energy > 100 * Milli
                       THEN /\ after.population = b.population + 1
                            /\ after.energy = energy - 30 * Milli
                       ELSE IF energy < 5 * Milli
                       THEN /\ after.population = Max(1, b.population - 1)
                            /\ after.energy = energy + 10 * Milli
                       ELSE /\ after.population = b.population
                            /\ after.energy = energy]_vars

\* A tick has taken a bacterium's energy above 100: its population is 2 and
\* its energy 30 below what the tick gave it.
C20_Witness ==
    /\ variant = "colony"
    /\ last.op = "world_loop"
    /\ \E i \in 1..Len(world.bacteria) :
          /\ InSeq("flagella", world.bacteria[i].evolution)
          /\ world.bacteria[i].population = 2
          /\ world.bacteria[i].energy > 70 * Milli

=============================================================================
